---- MODULE Spec2Model ----
(***************************************************************************)
(* A model of src/src/lib.rs (sha1-rs): the SHA1 digest state, the block   *)
(* compressor hash_block, the in-memory path hash_sha1, the streaming path *)
(* hash_sha1_file over a seekable file, and the encoders to_lhex/to_uhex.  *)
(*                                                                         *)
(* A u32 is modelled as the pair <<high 16 bits, low 16 bits>>, since the  *)
(* model checker's integers are 32-bit signed.  All u32 operations are     *)
(* defined on that pair and wrap modulo 2^32 as the Rust operations do.    *)
(***************************************************************************)
EXTENDS Integers, Sequences, FiniteSets, TLC

VARIABLES
    message,      \* the byte sequence given to the in-memory path
    mem,          \* the in-memory call: its outcome once it has returned
    file,         \* current contents of the file behind the handle
    cursor,       \* read position of the file handle
    pc,           \* position of the hash_sha1_file call
    blen,         \* local blen (metadata length)
    last_blocks,  \* local last_blocks
    bytes_read,   \* local bytes_read
    idx,          \* loop counter of the loop the call is in
    h,            \* local h: the SHA1 registers of the streaming call
    result,       \* "none" | "ok" | "err" | "panic"
    log,          \* history: the blocks handed to hash_block, in call order
    resized,      \* history: number of times the file's length was changed
    entry,        \* history: the handle's read position when the call began
    hex,          \* output of to_lhex / to_uhex on the returned SHA1
    round         \* one hash_block call taken round by round

vars == <<message, mem, file, cursor, pc, blen, last_blocks, bytes_read, idx,
          h, result, log, resized, entry, hex, round>>

(***************************************************************************)
(* u32 arithmetic                                                          *)
(***************************************************************************)
RECURSIVE Pow2(_)
Pow2(n) == IF n = 0 THEN 1 ELSE 2 * Pow2(n - 1)

RECURSIVE AndBits(_, _, _)
AndBits(a, b, n) ==
    IF n = 0 THEN 0
    ELSE (a % 2) * (b % 2) + 2 * AndBits(a \div 2, b \div 2, n - 1)

\* bitwise AND of two 4-bit values, tabulated
AndNibble == [i \in 0..15 |-> [j \in 0..15 |-> AndBits(i, j, 4)]]
AndTable == AndNibble @@ AndNibble

And16(a, b) ==
      AndTable[a \div 4096][b \div 4096] * 4096
    + AndTable[(a \div 256) % 16][(b \div 256) % 16] * 256
    + AndTable[(a \div 16) % 16][(b \div 16) % 16] * 16
    + AndTable[a % 16][b % 16]
Xor16(a, b) == a + b - 2 * And16(a, b)
Or16(a, b) == a + b - And16(a, b)

BitAnd(x, y) == <<And16(x[1], y[1]), And16(x[2], y[2])>>
BitXor(x, y) == <<Xor16(x[1], y[1]), Xor16(x[2], y[2])>>
BitOr(x, y) == <<Or16(x[1], y[1]), Or16(x[2], y[2])>>
BitNot(x) == <<65535 - x[1], 65535 - x[2]>>

\* u32::rotate_left
rotate_left(x, n) ==
    LET s == IF n >= 16 THEN <<x[2], x[1]>> ELSE x
        m == n % 16
        p == Pow2(m)
        q == Pow2(16 - m)
    IN  <<((s[1] * p) % 65536) + (s[2] \div q), ((s[2] * p) % 65536) + (s[1] \div q)>>

\* u32::wrapping_add
wrapping_add(x, y) ==
    LET lo == x[2] + y[2]
    IN  <<(x[1] + y[1] + (lo \div 65536)) % 65536, lo % 65536>>

\* the bytes taken in little-endian order
from_be_bytes_m(b) == <<b[4] * 256 + b[3], b[2] * 256 + b[1]>>

\* u32::from_be_bytes
from_be_bytes(b) == <<b[1] * 256 + b[2], b[3] * 256 + b[4]>>

\* u64::to_be_bytes of a value below 2^31: k bytes, most significant first
RECURSIVE to_be_bytes(_, _)
to_be_bytes(n, k) ==
    IF k = 0 THEN <<>> ELSE Append(to_be_bytes(n \div 256, k - 1), n % 256)

(***************************************************************************)
(* Hexadecimal text                                                        *)
(***************************************************************************)
LowerDigits == "0123456789abcdef"
UpperDigits == "0123456789ABCDEF"
CharAt(s, i) == SubSeq(s, i, i)
HexVal(c) == CHOOSE v \in 0..15 : CharAt(LowerDigits, v + 1) = c

\* a u32 written as a source literal 0x........
RECURSIVE HexNum(_)
HexNum(s) ==
    IF Len(s) = 0 THEN 0
    ELSE 16 * HexNum(SubSeq(s, 1, Len(s) - 1)) + HexVal(CharAt(s, Len(s)))
u32(s) == <<HexNum(SubSeq(s, 1, 4)), HexNum(SubSeq(s, 5, 8))>>

(***************************************************************************)
(* SHA1: constants and the initial registers                               *)
(***************************************************************************)
K == <<u32("5a827999"), u32("6ed9eba1"), u32("8f1bbcdc"), u32("ca62c1d6")>>

new == [h0 |-> u32("67452301"), h1 |-> u32("efcdab89"), h2 |-> u32("98badcfe"),
        h3 |-> u32("10325476"), h4 |-> u32("c3d2e1f0")]

(***************************************************************************)
(* hash_block: the block compressor                                        *)
(***************************************************************************)
\* lines 173-182: the 16 big-endian words of the block (words[i] is ws[i+1])
BlockWords(block) ==
    [i \in 1..16 |-> from_be_bytes(SubSeq(block, 4 * i - 3, 4 * i))]

\* lines 189-191: the word pushed in iteration i (words[j] is ws[j+1])
NextWord(ws, i) ==
    rotate_left(BitXor(BitXor(BitXor(ws[i - 3 + 1], ws[i - 8 + 1]),
                              ws[i - 14 + 1]), ws[i - 16 + 1]), 1)

\* lines 188-192: the iterations lo..hi-1 of the schedule loop, in order,
\* on a list ws of lo words (the range is halved to keep the evaluation
\* shallow)
RECURSIVE Extend(_, _, _)
Extend(ws, lo, hi) ==
    IF Len(ws) >= hi THEN ws
    ELSE IF hi = lo + 1 THEN Append(ws, NextWord(ws, lo))
    ELSE LET mid == (lo + hi) \div 2
             us == Extend(ws, lo, mid)
         IN  Extend(us, mid, hi)

\* lines 173-192: the message schedule; the loop is "for i in 16..80"
Schedule(block) == Extend(BlockWords(block), 16, 80)

\* line 203: the match scrutinee
Quadrant(t) == t \div 20

\* RoundF with the complement of line 206 left out
RoundF_m(q, b, c, d) ==
    CASE q = 0 -> BitXor(BitAnd(b, c), BitAnd(b, d))
      [] q = 1 -> BitXor(BitXor(b, c), d)
      [] q = 2 -> BitXor(BitXor(BitAnd(b, c), BitAnd(b, d)), BitAnd(c, d))
      [] q = 3 -> BitXor(BitXor(b, c), d)

\* lines 205-226: f as the arms 0, 1, 2, 3 of the match compute it
RoundF(q, b, c, d) ==
    CASE q = 0 -> BitXor(BitAnd(b, c), BitAnd(BitNot(b), d))
      [] q = 1 -> BitXor(BitXor(b, c), d)
      [] q = 2 -> BitXor(BitXor(BitAnd(b, c), BitAnd(b, d)), BitAnd(c, d))
      [] q = 3 -> BitXor(BitXor(b, c), d)

\* RoundK with the constant of arm 2 repeated in arm 3
RoundK_m(q) ==
    CASE q = 0 -> K[0 + 1]
      [] q = 1 -> K[1 + 1]
      [] q = 2 -> K[2 + 1]
      [] q = 3 -> K[2 + 1]

\* lines 205-226: k as the code selects it
RoundK(q) ==
    CASE q = 0 -> K[0 + 1]
      [] q = 1 -> K[1 + 1]
      [] q = 2 -> K[2 + 1]
      [] q = 3 -> K[3 + 1]

\* lines 228-231: the arm "_" of the match, which panics
RoundPanics(t) == Quadrant(t) \notin {0, 1, 2, 3}

\* lines 198-248: one iteration of the round loop on the working variables;
\* panic is TRUE once the arm of line 228 has been taken
Round(t, v, words) ==
    LET w == words[t + 1]
        f == RoundF(Quadrant(t), v.b, v.c, v.d)
        k == RoundK(Quadrant(t))
        temp == wrapping_add(wrapping_add(wrapping_add(wrapping_add(
                    rotate_left(v.a, 5), f), v.e), k), w)
    IN  IF v.panic \/ RoundPanics(t) THEN [v EXCEPT !.panic = TRUE]
        ELSE [a |-> temp, b |-> v.a, c |-> rotate_left(v.b, 30), d |-> v.c,
              e |-> v.d, panic |-> FALSE]

\* lines 166-170
Working(hh) ==
    [a |-> hh.h0, b |-> hh.h1, c |-> hh.h2, d |-> hh.h3, e |-> hh.h4,
     panic |-> FALSE]

\* lines 198-248: the iterations lo..hi-1 of the round loop, in order; a
\* panic ends the loop (the range is halved to keep the evaluation shallow)
RECURSIVE Rounds(_, _, _, _)
Rounds(v, lo, hi, words) ==
    IF v.panic \/ hi <= lo THEN v
    ELSE IF hi = lo + 1 THEN Round(lo, v, words)
    ELSE LET mid == (lo + hi) \div 2
             u == Rounds(v, lo, mid, words)
         IN  Rounds(u, mid, hi, words)

\* lines 251-255
AddBack(hh, v) ==
    [h0 |-> wrapping_add(v.a, hh.h0), h1 |-> wrapping_add(v.b, hh.h1),
     h2 |-> wrapping_add(v.c, hh.h2), h3 |-> wrapping_add(v.d, hh.h3),
     h4 |-> wrapping_add(v.e, hh.h4)]

\* lines 162-256; the round loop is "for t in 0..80".  The result is the
\* updated registers h, or panic when the call panicked
hash_block(hh, block) ==
    LET words == Schedule(block)
        v == Rounds(Working(hh), 0, 80, words)
    IN  IF Len(words) # 80 THEN [panic |-> TRUE, h |-> hh]   \* line 195
        ELSE [panic |-> v.panic, h |-> IF v.panic THEN hh ELSE AddBack(hh, v)]

(***************************************************************************)
(* hash_sha1: the in-memory path                                           *)
(***************************************************************************)
\* lines 44-46 and 97-99: push zeroes until the length is 56 modulo 64
RECURSIVE PadZeroes(_)

\* the loop with its test at the end: one zero is always pushed
RECURSIVE PadZeroes_m(_)
PadZeroes_m(m) ==
    LET n == Append(m, 0)
    IN  IF Len(n) % 64 = 56 THEN n ELSE PadZeroes_m(n)

PadZeroes(m) == IF Len(m) % 64 = 56 THEN m ELSE PadZeroes(Append(m, 0))

\* the marker 0x80 left out
Pad_m(m, len) == PadZeroes(m) \o len

\* lines 41-51 and 94-104: the marker, the zeroes, the 8 length bytes
Pad(m, len) == PadZeroes(Append(m, 128)) \o len

\* lines 60-65 and 125-130: fold blocks 0..n-1 of data through hash_block
RECURSIVE HashBlocks(_, _, _)
HashBlocks(hh, data, n) ==
    IF n = 0 THEN [panic |-> FALSE, h |-> hh]
    ELSE LET r == HashBlocks(hh, data, n - 1)
         IN  IF r.panic THEN r
             ELSE hash_block(r.h, SubSeq(data, (n - 1) * 64 + 1, n * 64))

\* lines 32-68: the call's outcome with the values of its locals.  It
\* panics when the assertion of line 54 fails or a hash_block call panics
hash_sha1(m) ==
    LET len == to_be_bytes(Len(m) * 8, 8)
        padded == Pad(m, len)
        asserted == Len(padded) % 64 = 0
        blocks == Len(padded) \div 64
        r == HashBlocks(new, padded, blocks)
    IN  [panic |-> ~asserted \/ r.panic,
         message |-> padded,
         blocks |-> blocks,
         h |-> r.h]

(***************************************************************************)
(* to_lhex / to_uhex                                                       *)
(***************************************************************************)
\* the digits of n without leading zeroes, as format's {:x} writes them
RECURSIVE HexDigits(_, _)
HexDigits(n, digits) ==
    IF n < 16 THEN CharAt(digits, n + 1)
    ELSE HexDigits(n \div 16, digits) \o CharAt(digits, (n % 16) + 1)

RECURSIVE ZeroPad(_, _)

\* the width left out of the format: "{:x}"
ZeroPad_m(s, width) == s

\* the zero fill of the format's width
ZeroPad(s, width) == IF Len(s) >= width THEN s ELSE ZeroPad("0" \o s, width)

\* the four digits of a 16-bit value
Digits4(n, digits) ==
    CharAt(digits, (n \div 4096) + 1) \o CharAt(digits, ((n \div 256) % 16) + 1)
    \o CharAt(digits, ((n \div 16) % 16) + 1) \o CharAt(digits, (n % 16) + 1)

\* format!("{:08x}", w) and format!("{:08X}", w): the digits of w, zero
\* filled to the width 8
Format08(w, digits) ==
    ZeroPad(IF w[1] = 0 THEN HexDigits(w[2], digits)
            ELSE HexDigits(w[1], digits) \o Digits4(w[2], digits),
            8)

\* lines 137-147
to_lhex(hh) ==
    Format08(hh.h0, LowerDigits) \o Format08(hh.h1, LowerDigits)
    \o Format08(hh.h2, LowerDigits) \o Format08(hh.h3, LowerDigits)
    \o Format08(hh.h4, LowerDigits)

\* lines 150-160
to_uhex(hh) ==
    Format08(hh.h0, UpperDigits) \o Format08(hh.h1, UpperDigits)
    \o Format08(hh.h2, UpperDigits) \o Format08(hh.h3, UpperDigits)
    \o Format08(hh.h4, UpperDigits)

\* str::as_bytes for text of ASCII digits and lower-case letters
LowerLetters == "abcdefghijklmnopqrstuvwxyz"
AsciiCode(c) ==
    IF \E v \in 0..9 : CharAt(LowerDigits, v + 1) = c
    THEN 48 + (CHOOSE v \in 0..9 : CharAt(LowerDigits, v + 1) = c)
    ELSE 97 + (CHOOSE v \in 0..25 : CharAt(LowerLetters, v + 1) = c)
as_bytes(s) == [i \in 1..Len(s) |-> AsciiCode(CharAt(s, i))]

(***************************************************************************)
(* Inputs                                                                  *)
(***************************************************************************)
MaxLen == 130        \* longest message and file of Spec
MaxIOLen == 66       \* longest file of SpecIO
MaxGrow == 2         \* most bytes a concurrent writer appends in SpecIO
MaxResize == 1       \* most changes of the file's length during one call

\* a message of n bytes (byte values on both sides of 128, 0 included)
Gen(n) == [i \in 1..n |-> (31 * i + 7 * n) % 256]

\* the messages of the tests and of the known vectors
Vectors == {as_bytes("abc"), as_bytes("abcdefg"), as_bytes("1234567890")}

Messages == Vectors \cup {Gen(n) : n \in 0..MaxLen}

\* read positions a handle may have when hash_sha1_file is called
EntryCursors(n) == {0, n \div 2, n}

(***************************************************************************)
(* The file handle: std::fs::File with Read and Seek                       *)
(***************************************************************************)
\* Read::read_to_end from position c: the bytes up to the end of the file
ReadToEnd(f, c) == IF c >= Len(f) THEN <<>> ELSE SubSeq(f, c + 1, Len(f))

\* Read::read_exact of a 64-byte buffer from position c succeeds only when
\* 64 bytes are left
CanReadExact(f, c) == c + 64 <= Len(f)
ReadExact(f, c) == SubSeq(f, c + 1, c + 64)

(***************************************************************************)
(* hash_sha1_file: the streaming path, one step per I/O call or            *)
(* hash_block call.  Every I/O call may fail (ok = FALSE), and "?" then    *)
(* returns the error.                                                      *)
(***************************************************************************)
whole_blocks == blen \div 64     \* line 78
left_over == blen % 64           \* line 81

\* line 74: the bit length as 8 big-endian bytes
FileLen_m == to_be_bytes(blen, 8)
FileLen == to_be_bytes(blen * 8, 8)

\* lines 88 and 109: the position Seek::seek(SeekFrom::Start(pos)) moves to
SeekFromStart_m(pos) == cursor + pos
SeekFromStart(pos) == pos

\* lines 126-127: block b of last_blocks
LastBlock_m(b) ==
    LET n == Len(last_blocks) \div 64
    IN  SubSeq(last_blocks, (n - 1 - b) * 64 + 1, (n - b) * 64)
LastBlock(b) == SubSeq(last_blocks, b * 64 + 1, (b + 1) * 64)

Fail(outcome) ==
    /\ result' = outcome
    /\ pc' = "done"

\* lines 73-85
Metadata ==
    /\ pc = "start"
    /\ \E ok \in BOOLEAN :
         IF ok
         THEN /\ blen' = Len(file)
              /\ h' = new
              /\ last_blocks' = <<>>
              /\ pc' = "seek_tail"
              /\ UNCHANGED result
         ELSE /\ Fail("err")
              /\ UNCHANGED <<blen, h, last_blocks>>
    /\ UNCHANGED <<message, mem, file, cursor, bytes_read, idx, log, resized,
                   entry, hex, round>>

\* line 88
SeekTail ==
    /\ pc = "seek_tail"
    /\ \E ok \in BOOLEAN :
         IF ok
         THEN /\ cursor' = SeekFromStart(whole_blocks * 64)
              /\ pc' = "read_tail"
              /\ UNCHANGED result
         ELSE /\ Fail("err")
              /\ UNCHANGED cursor
    /\ UNCHANGED <<message, mem, file, blen, last_blocks, bytes_read, idx, h,
                   log, resized, entry, hex, round>>

\* lines 89-106: read the tail, check its length, pad it
ReadTail ==
    /\ pc = "read_tail"
    /\ \E ok \in BOOLEAN :
         IF ok
         THEN LET data == ReadToEnd(file, cursor)
                  padded == Pad(last_blocks \o data, FileLen)
              IN  /\ bytes_read' = Len(data)
                  /\ cursor' = cursor + Len(data)
                  /\ IF Len(data) # left_over                \* line 91
                     THEN /\ Fail("panic")
                          /\ last_blocks' = last_blocks \o data
                     ELSE IF Len(padded) % 64 # 0            \* line 106
                     THEN /\ Fail("panic")
                          /\ last_blocks' = padded
                     ELSE /\ last_blocks' = padded
                          /\ pc' = "seek_start"
                          /\ UNCHANGED result
         ELSE /\ Fail("err")
              /\ UNCHANGED <<bytes_read, cursor, last_blocks>>
    /\ UNCHANGED <<message, mem, file, blen, idx, h, log, resized, entry, hex,
                   round>>

\* line 109, and the entry of the loop of line 113
SeekStart ==
    /\ pc = "seek_start"
    /\ \E ok \in BOOLEAN :
         IF ok
         THEN /\ cursor' = SeekFromStart(0)
              /\ idx' = 0
              /\ pc' = IF 0 < whole_blocks THEN "whole" ELSE "last"
              /\ UNCHANGED result
         ELSE /\ Fail("err")
              /\ UNCHANGED <<cursor, idx>>
    /\ UNCHANGED <<message, mem, file, blen, last_blocks, bytes_read, h, log,
                   resized, entry, hex, round>>

\* lines 113-122: one iteration of the loop over the whole blocks
ReadWhole ==
    /\ pc = "whole"
    /\ idx < whole_blocks
    /\ \E ok \in BOOLEAN :
         IF ok /\ CanReadExact(file, cursor)
         THEN LET block_bytes == ReadExact(file, cursor)
                  r == hash_block(h, block_bytes)
              IN  /\ cursor' = cursor + 64
                  /\ log' = Append(log, [src |-> "file", at |-> cursor,
                                         bytes |-> block_bytes])
                  /\ IF r.panic
                     THEN /\ Fail("panic")
                          /\ UNCHANGED <<h, idx>>
                     ELSE /\ h' = r.h
                          /\ idx' = IF idx + 1 < whole_blocks THEN idx + 1 ELSE 0
                          /\ pc' = IF idx + 1 < whole_blocks THEN "whole"
                                   ELSE "last"
                          /\ UNCHANGED result
         ELSE /\ Fail("err")
              /\ UNCHANGED <<cursor, log, h, idx>>
    /\ UNCHANGED <<message, mem, file, blen, last_blocks, bytes_read, resized,
                   entry, hex, round>>

\* lines 125-130: one iteration of the loop over the last blocks
HashLast ==
    /\ pc = "last"
    /\ idx < Len(last_blocks) \div 64
    /\ LET block_bytes == LastBlock(idx)
           r == hash_block(h, block_bytes)
       IN  /\ log' = Append(log, [src |-> "last_blocks", at |-> idx * 64,
                                  bytes |-> block_bytes])
           /\ IF r.panic
              THEN /\ Fail("panic")
                   /\ UNCHANGED <<h, idx>>
              ELSE /\ h' = r.h
                   /\ idx' = idx + 1
                   /\ UNCHANGED <<pc, result>>
    /\ UNCHANGED <<message, mem, file, cursor, blen, last_blocks, bytes_read,
                   resized, entry, hex, round>>

\* line 133
Return ==
    /\ pc = "last"
    /\ idx = Len(last_blocks) \div 64
    /\ result' = "ok"
    /\ pc' = "done"
    /\ UNCHANGED <<message, mem, file, cursor, blen, last_blocks, bytes_read,
                   idx, h, log, resized, entry, hex, round>>

\* the streaming call
HashSha1File ==
    Metadata \/ SeekTail \/ ReadTail \/ SeekStart \/ ReadWhole \/ HashLast
    \/ Return

(***************************************************************************)
(* The in-memory call and the encoders.  The caller is sequential and, as  *)
(* the tests test_file_hash0 and test_file_hash1 do, hashes the file and   *)
(* then the same bytes in memory.                                          *)
(***************************************************************************)
Sequential == pc = "done" /\ result = "ok"

\* lines 263-295: x.sha1() is SHA1::hash_sha1 of the bytes of x
HashSha1 ==
    /\ Sequential
    /\ ~mem.done
    /\ mem' = [done |-> TRUE] @@ hash_sha1(message)
    /\ UNCHANGED <<message, file, cursor, pc, blen, last_blocks, bytes_read,
                   idx, h, result, log, resized, entry, hex, round>>

\* lines 137-147, on the SHA1 the in-memory call returned
ToLhex ==
    /\ Sequential
    /\ mem.done /\ ~mem.panic
    /\ hex.l = ""
    /\ hex' = [hex EXCEPT !.l = to_lhex(mem.h)]
    /\ UNCHANGED <<message, mem, file, cursor, pc, blen, last_blocks,
                   bytes_read, idx, h, result, log, resized, entry, round>>

\* lines 150-160, on the SHA1 the in-memory call returned
ToUhex ==
    /\ Sequential
    /\ mem.done /\ ~mem.panic
    /\ hex.u = ""
    /\ hex' = [hex EXCEPT !.u = to_uhex(mem.h)]
    /\ UNCHANGED <<message, mem, file, cursor, pc, blen, last_blocks,
                   bytes_read, idx, h, result, log, resized, entry, round>>

NotCalled == [done |-> FALSE]
NoRound == [t |-> 81]

Init ==
    /\ message \in Messages
    /\ mem = NotCalled
    /\ file = message
    /\ cursor \in EntryCursors(Len(message))
    /\ entry = cursor
    /\ pc = "start"
    /\ blen = 0
    /\ last_blocks = <<>>
    /\ bytes_read = 0
    /\ idx = 0
    /\ h = new
    /\ result = "none"
    /\ log = <<>>
    /\ resized = 0
    /\ hex = [l |-> "", u |-> ""]
    /\ round = NoRound

Next == HashSha1File \/ HashSha1 \/ ToLhex

\* the file is not written while it is hashed
Spec == Init /\ [][Next]_vars

(***************************************************************************)
(* SpecIO: another process changes the length of the file while it is      *)
(* hashed, between the metadata call and the last read of the call.        *)
(***************************************************************************)
ReadPending ==
    \/ pc \in {"seek_tail", "read_tail", "whole"}
    \/ pc = "seek_start" /\ 0 < whole_blocks

\* the n bytes appended to a file of length len
Grown(len, n) == [i \in 1..n |-> (len + i) % 256]

\* truncation to, or extension to, a length n
Resize ==
    /\ ReadPending
    /\ resized < MaxResize
    /\ \E n \in 0..(Len(file) + MaxGrow) :
         /\ n # Len(file)
         /\ file' = IF n < Len(file) THEN SubSeq(file, 1, n)
                    ELSE file \o Grown(Len(file), n - Len(file))
    /\ resized' = resized + 1
    /\ UNCHANGED <<message, mem, cursor, pc, blen, last_blocks, bytes_read,
                   idx, h, result, log, entry, hex, round>>

InitIO == Init /\ Len(message) <= MaxIOLen /\ message \notin Vectors

NextIO == HashSha1File \/ Resize

SpecIO == InitIO /\ [][NextIO]_vars

(***************************************************************************)
(* SpecHex: to_lhex and to_uhex on arbitrary register values               *)
(***************************************************************************)
\* no streaming call is made
NoCall ==
    /\ message = <<>>
    /\ file = <<>>
    /\ cursor = 0
    /\ entry = 0
    /\ blen = 0
    /\ last_blocks = <<>>
    /\ bytes_read = 0
    /\ idx = 0
    /\ h = new
    /\ log = <<>>
    /\ resized = 0

\* register values with and without leading zero digits, in either half
Registers ==
    {u32("00000000"), u32("ffffffff"), u32("00abcdef"), u32("1234000f")}

InitHex ==
    /\ NoCall
    /\ pc = "done"
    /\ result = "ok"
    /\ \E r \in [{"h0", "h1", "h2", "h3", "h4"} -> Registers] :
         mem = [done |-> TRUE, panic |-> FALSE, message |-> <<>>,
                blocks |-> 0, h |-> r]
    /\ hex = [l |-> "", u |-> ""]
    /\ round = NoRound

NextHex == ToLhex \/ ToUhex

SpecHex == InitHex /\ [][NextHex]_vars

(***************************************************************************)
(* SpecRound: one hash_block call, taken one round at a time               *)
(***************************************************************************)
\* lines 198-248: iteration t of the round loop
RoundStep ==
    /\ round.t < 80
    /\ ~round.v.panic
    /\ round' = [round EXCEPT !.t = round.t + 1,
                              !.v = Round(round.t, round.v, round.words)]
    /\ UNCHANGED <<message, mem, file, cursor, pc, blen, last_blocks,
                   bytes_read, idx, h, result, log, resized, entry, hex>>

\* lines 251-255
RoundEnd ==
    /\ round.t = 80
    /\ ~round.v.panic
    /\ round' = [round EXCEPT !.t = 81, !.hh = AddBack(round.hh, round.v)]
    /\ UNCHANGED <<message, mem, file, cursor, pc, blen, last_blocks,
                   bytes_read, idx, h, result, log, resized, entry, hex>>

\* the registers and the blocks a hash_block call is given
StartRegisters ==
    {new,
     [h0 |-> u32("00000000"), h1 |-> u32("ffffffff"), h2 |-> u32("00000000"),
      h3 |-> u32("ffffffff"), h4 |-> u32("00000000")],
     [h0 |-> u32("ffffffff"), h1 |-> u32("f0f0f0f0"), h2 |-> u32("cccccccc"),
      h3 |-> u32("aaaaaaaa"), h4 |-> u32("ffffffff")]}
StartBlocks ==
    {SubSeq(hash_sha1(m).message, 1, 64) : m \in {<<>>, as_bytes("abc"), Gen(64)}}

InitRound ==
    /\ NoCall
    /\ pc = "done"
    /\ result = "none"
    /\ mem = NotCalled
    /\ hex = [l |-> "", u |-> ""]
    /\ \E hh \in StartRegisters, block \in StartBlocks :
         round = [t |-> 0, hh |-> hh, v |-> Working(hh),
                  words |-> Schedule(block), block |-> block]

NextRound == RoundStep \/ RoundEnd

SpecRound == InitRound /\ [][NextRound]_vars

(***************************************************************************)
(* Properties                                                              *)
(***************************************************************************)
CeilDiv(a, b) == (a + b - 1) \div b

\* C1: for a file whose contents are the message and are not changed during
\* the call, the streaming call and the in-memory call return the same five
\* registers, hence the same 40-digit to_lhex text.
C1_PathsAgree ==
    (result = "ok" /\ mem.done /\ file = message) =>
        /\ ~mem.panic
        /\ h = mem.h
        /\ hex.l # "" => (to_lhex(h) = hex.l /\ Len(hex.l) = 40)

C1_Witness ==
    /\ result = "ok" /\ mem.done /\ hex.l # ""
    /\ Len(message) = 65
    /\ h = mem.h

\* C2: the in-memory path followed by to_lhex returns the standard SHA-1
\* digests of "", "abcdefg" and "1234567890".
C2_KnownVectors ==
    hex.l # "" =>
        /\ message = <<>> =>
             hex.l = "da39a3ee5e6b4b0d3255bfef95601890afd80709"
        /\ message = as_bytes("abcdefg") =>
             hex.l = "2fb5e13419fc89246865e7a324f476ec624e8740"
        /\ message = as_bytes("1234567890") =>
             hex.l = "01b307acba4f54f55aafc33bb06bbbf6ca803e9a"

C2_Witness ==
    /\ message = as_bytes("1234567890")
    /\ hex.l = "01b307acba4f54f55aafc33bb06bbbf6ca803e9a"

\* C3 as stated: "abc" hashed in memory and rendered in lower case is the
\* 39-character text a9993e364706816aba3e25717850c26c9cd0d89.
C3_Original ==
    (hex.l # "" /\ message = as_bytes("abc")) =>
        hex.l = "a9993e364706816aba3e25717850c26c9cd0d89"

\* C3 amended: "abc" hashed in memory and rendered in lower case is the
\* 40-character text a9993e364706816aba3e25717850c26c9cd0d89d.
C3_Abc ==
    (hex.l # "" /\ message = as_bytes("abc")) =>
        hex.l = "a9993e364706816aba3e25717850c26c9cd0d89d"

C3_Witness ==
    /\ message = as_bytes("abc")
    /\ mem.done
    /\ Len(hex.l) = 40

\* C4: for every length L, in both paths, the padded data is a positive
\* multiple of 64 bytes (no assertion fails) and hash_block is called
\* ceil((L+9)/64) times; in the streaming path that is floor(L/64) whole
\* blocks plus the blocks of the padded tail.
C4_BlockCount ==
    /\ result # "panic"
    /\ mem.done =>
         /\ ~mem.panic
         /\ Len(mem.message) > 0 /\ Len(mem.message) % 64 = 0
         /\ mem.blocks = CeilDiv(Len(message) + 9, 64)
    /\ pc \in {"seek_start", "whole", "last"} \/ result = "ok" =>
         Len(last_blocks) > 0 /\ Len(last_blocks) % 64 = 0
    /\ result = "ok" =>
         /\ Len(log) = CeilDiv(Len(file) + 9, 64)
         /\ Len(log) = (Len(file) \div 64) + (Len(last_blocks) \div 64)

C4_Witness ==
    /\ result = "ok" /\ mem.done
    /\ Len(message) = 120
    /\ Len(log) = 3 /\ mem.blocks = 3 /\ Len(last_blocks) = 128

\* the blocks of the padding tail, in the streaming call and in the
\* in-memory call
FileTailBlocks == Len(last_blocks) \div 64
MemTailBlocks == mem.blocks - (Len(message) \div 64)
Padded == pc \in {"seek_start", "whole", "last"} \/ result = "ok"

\* C5 as stated: the padding tail is two blocks when L mod 64 = 55, two when
\* L mod 64 is in 56..63, and one for the residues 0..54.
C5_Original ==
    LET n == IF Len(message) % 64 >= 55 THEN 2 ELSE 1
    IN  /\ Padded => FileTailBlocks = n
        /\ mem.done => MemTailBlocks = n

\* C5 amended: the padding tail is two blocks when L mod 64 is in 56..63 and
\* one block for the residues 0..55, in both paths.
C5_TailBlocks ==
    LET n == IF Len(message) % 64 >= 56 THEN 2 ELSE 1
    IN  /\ Padded => FileTailBlocks = n
        /\ mem.done => MemTailBlocks = n

C5_Witness ==
    /\ Len(message) = 119
    /\ result = "ok" /\ mem.done
    /\ FileTailBlocks = 1 /\ MemTailBlocks = 1

\* C6 as stated: when the bytes announced by the metadata length cannot be
\* obtained (a failed call, or a file made shorter or longer during the
\* call), hash_sha1_file returns Err: it never panics and never returns Ok
\* with a digest of other data than the announced bytes.
C6_ErrorsAreReturned ==
    /\ result # "panic"
    /\ result = "ok" => h = hash_sha1(message).h

\* lower-case text to upper case
UpperChar(c) ==
    IF \E v \in 0..15 : CharAt(LowerDigits, v + 1) = c
    THEN CharAt(UpperDigits, (CHOOSE v \in 0..15 : CharAt(LowerDigits, v + 1) = c) + 1)
    ELSE c
RECURSIVE ToUpper(_)
ToUpper(s) ==
    IF Len(s) = 0 THEN ""
    ELSE ToUpper(SubSeq(s, 1, Len(s) - 1)) \o UpperChar(CharAt(s, Len(s)))

\* the value of 4 digits of the given alphabet, -1 when one is no digit
RECURSIVE Parse(_, _)
Parse(s, digits) ==
    IF Len(s) = 0 THEN 0
    ELSE LET c == CharAt(s, Len(s))
             rest == Parse(SubSeq(s, 1, Len(s) - 1), digits)
         IN  IF rest < 0 \/ ~\E v \in 0..15 : CharAt(digits, v + 1) = c THEN -1
             ELSE 16 * rest + (CHOOSE v \in 0..15 : CharAt(digits, v + 1) = c)

\* text is 40 characters: registers h0..h4 in order, 8 digits each
Encodes(text, hh, digits) ==
    /\ Len(text) = 40
    /\ \A i \in 1..5 :
         LET reg == <<hh.h0, hh.h1, hh.h2, hh.h3, hh.h4>>[i]
         IN  /\ Parse(SubSeq(text, 8 * i - 7, 8 * i - 4), digits) = reg[1]
             /\ Parse(SubSeq(text, 8 * i - 3, 8 * i), digits) = reg[2]

\* C7: for every value of the five registers, to_lhex and to_uhex return 40
\* characters, h0..h4 in order as 8 zero-padded digits each, and to_uhex is
\* the upper-case transform of to_lhex.
C7_HexEncoding ==
    /\ hex.l # "" => Encodes(hex.l, mem.h, LowerDigits)
    /\ hex.u # "" => Encodes(hex.u, mem.h, UpperDigits)
    /\ (hex.l # "" /\ hex.u # "") => hex.u = ToUpper(hex.l)

C7_Witness ==
    /\ mem.h.h0 = u32("00abcdef") /\ mem.h.h1 = u32("00000000")
    /\ mem.h.h4 = u32("1234000f")
    /\ hex.l # "" /\ hex.u # ""
    /\ SubSeq(hex.l, 1, 16) = "00abcdef00000000"
    /\ SubSeq(hex.u, 1, 8) = "00ABCDEF"

\* the hash_block calls the streaming call makes on a file f, in order
ExpectedLog(f) ==
    LET whole == Len(f) \div 64
        tail == Pad(SubSeq(f, whole * 64 + 1, Len(f)), to_be_bytes(Len(f) * 8, 8))
    IN  [i \in 1..whole |->
            [src |-> "file", at |-> (i - 1) * 64,
             bytes |-> SubSeq(f, (i - 1) * 64 + 1, i * 64)]]
        \o [j \in 1..(Len(tail) \div 64) |->
            [src |-> "last_blocks", at |-> (j - 1) * 64,
             bytes |-> SubSeq(tail, (j - 1) * 64 + 1, j * 64)]]

C8_InOrder ==
    /\ Len(log) <= Len(ExpectedLog(file))
    /\ log = SubSeq(ExpectedLog(file), 1, Len(log))
    /\ result = "ok" => log = ExpectedLog(file)

C8_OnlyHashBlock ==
    \/ /\ h' = h
       /\ log' = log
    \/ /\ Len(log') = Len(log) + 1
       /\ SubSeq(log', 1, Len(log)) = log
       /\ h' = hash_block(h, log'[Len(log')].bytes).h

\* C8: in the streaming call the registers are changed only by hash_block,
\* once per block and in block order: the whole blocks of the file by
\* ascending offset, then the padded tail blocks in order.
C8_BlockOrder == [](C8_InOrder) /\ [][C8_OnlyHashBlock]_vars

C8_Witness ==
    /\ result = "ok"
    /\ Len(message) = 130
    /\ Len(log) = 3
    /\ log[1].at = 0 /\ log[2].at = 64 /\ log[2].src = "file"
    /\ log[3].src = "last_blocks"

\* the round functions as specified, with OR
C9_SpecF(q, b, c, d) ==
    CASE q = 0 -> BitOr(BitAnd(b, c), BitAnd(BitNot(b), d))
      [] q = 1 -> BitXor(BitXor(b, c), d)
      [] q = 2 -> BitOr(BitOr(BitAnd(b, c), BitAnd(b, d)), BitAnd(c, d))
      [] q = 3 -> BitXor(BitXor(b, c), d)

\* words that put every combination of three bits in some bit position
C9_Words ==
    {u32("00000000"), u32("ffffffff"), u32("f0f0f0f0"), u32("cccccccc"),
     u32("aaaaaaaa")}

\* C9: for every round t in 0..79 the quadrant t/20 is one of 0..3 (the
\* panic arm is not taken), the constant is K[t/20], and f as the code
\* computes it with XOR equals f as specified with OR.
C9_RoundFunction ==
    /\ round.t <= 80 => ~round.v.panic
    /\ round.t < 80 =>
         LET q == Quadrant(round.t)
         IN  /\ q \in 0..3
             /\ ~RoundPanics(round.t)
             /\ RoundK(q) = K[q + 1]
             /\ \A b, c, d \in C9_Words \cup {round.v.b, round.v.c, round.v.d} :
                  RoundF(q, b, c, d) = C9_SpecF(q, b, c, d)

C9_Witness ==
    /\ round.t = 79
    /\ Quadrant(round.t) = 3
    /\ round.hh = new
    /\ round.v.b # round.v.c

\* C10: the digest does not depend on the read position the handle has when
\* the call begins: from every entry position the call returns the digest of
\* the whole contents from offset 0, and leaves the handle at 64*floor(L/64).
C10_CursorIndependent ==
    /\ result # "panic"
    /\ result = "ok" =>
         /\ h = hash_sha1(file).h
         /\ cursor = 64 * (Len(file) \div 64)

C10_Witness ==
    /\ result = "ok"
    /\ Len(file) = 100
    /\ entry = 50
    /\ cursor = 64
    /\ ~mem.done

====
